---- MODULE Spec2Model ----
(***************************************************************************)
(* pykorad: a driver for a KORAD bench power supply on a serial line.      *)
(*                                                                         *)
(* The model follows one PowerSupply object through its life: the          *)
(* constructor (open the port, one *IDN? transaction), any sequence of     *)
(* public operations, and the end of the object's life.  Every call the    *)
(* driver makes on the serial port (write, read, close) is one step; the   *)
(* bytes the port delivers, and whether a port call raises, are chosen by  *)
(* the environment.                                                        *)
(*                                                                         *)
(* Bytes are integers 0..255.  Numbers handed to the setters are decimal   *)
(* values with one fractional digit, kept as tenths (12.5 is 125), and     *)
(* marked as a Python int or a Python float.                               *)
(***************************************************************************)
EXTENDS Integers, Sequences, FiniteSets, TLC

VARIABLES
    life,        \* "unborn", "constructing", "alive", "ended"
    opens,       \* number of times serial.Serial(...) opened the port
    closes,      \* number of times self._serial_port.close() was called
    scoped,      \* the caller holds the object in a with-block
    id,          \* self._id
    pc,          \* "idle", "write" (before line 48), "read" (at line 54),
                 \* "returned" (the caller holds the operation's outcome)
    op,          \* the public operation in progress, or the last one
    arg,         \* its argument
    command,     \* _execute_command's parameter command
    decode,      \* _execute_command's parameter decode
    data,        \* _execute_command's local data
    counter,     \* _is_protection_enabled's local counter
    mask,        \* _is_protection_enabled's parameter mask
    result,      \* what the last public operation gave its caller
    rxlog,       \* history: what each read() of the current call returned
    callWrites,  \* history: write() calls made by the current _execute_command
    opWrites,    \* history: write() calls made by the current public operation
                 \* (up to WriteCap)
    idnWrites,   \* history: how many times *IDN? was written
    idnRaw,      \* history: the bytes the port delivered in reply to *IDN?
    overrun,     \* history: the call read more than MaxResp bytes, and data
                 \* holds the last MaxResp of them (LiveSpec only)
    faulted,     \* history: write() or read() raised during the operation
    wire,        \* history: how the port was last used: "written", "draining"
                 \* (a read returned bytes), "quiet" (a read returned nothing,
                 \* or no use yet), "cut" (the write or read raised)
    before       \* history: wire when the operation's last write() was called

vars == <<life, opens, closes, scoped, id, pc, op, arg, command, decode, data,
          counter, mask, result, rxlog, callWrites, opWrites, idnWrites,
          idnRaw, overrun, faulted, wire, before>>

----------------------------------------------------------------------------
(* Bounds of the model. *)

\* The port delivers at most MaxResp bytes in reply to one command.
MaxResp == 7

\* The history counter opWrites stops counting at WriteCap.
WriteCap == 4

\* The decoder is applied to every byte sequence of at most MaxText bytes
\* over DecodeBytes, and to the sequences of DecodeVectors.
MaxText == 4

\* The byte values the port can deliver: "1" (0x31, a digit, bit 5 set) and
\* 0xC0 (bits 7 and 6 set, never valid in UTF-8).
Byte == {49, 192}

----------------------------------------------------------------------------
(* Program constants. *)

OUTPUT_ENABLED_MASK == 64
OVER_CURRENT_PROTECTION_ENABLED_MASK == 32
OVER_VOLTAGE_PROTECTION_ENABLED_MASK == 128
CC_CV_MASK == 1

\* The limits of the assert statements, in tenths.
VoltageMin == 0
VoltageMax == 300
CurrentMin == 0
CurrentMax == 50
IndexMin == 10
IndexMax == 50

\* while counter < 3
MaxAttempts == 3

\* len(data) == 6 in _perform_bug_workarounds
QuirkLen == 6

----------------------------------------------------------------------------
(* Text and bytes. *)

\* ord() of the characters the command templates use.
Ord == ("*" :> 42) @@ ("." :> 46) @@ ("-" :> 45) @@ ("0" :> 48) @@ ("1" :> 49) @@
       (":" :> 58) @@ ("?" :> 63) @@ ("A" :> 65) @@ ("C" :> 67) @@ ("D" :> 68) @@
       ("E" :> 69) @@ ("I" :> 73) @@ ("L" :> 76) @@ ("N" :> 78) @@ ("O" :> 79) @@
       ("P" :> 80) @@ ("R" :> 82) @@ ("S" :> 83) @@ ("T" :> 84) @@ ("U" :> 85) @@
       ("V" :> 86)

\* str.encode("utf-8") of a text of ASCII characters: one byte per character.
Encode(s) == [i \in 1..Len(s) |-> Ord[s[i]]]

\* The decimal digits of a natural number, as bytes.
RECURSIVE Digits(_)
Digits(n) == IF n < 10 THEN <<48 + n>> ELSE Digits(n \div 10) \o <<48 + (n % 10)>>

\* A number handed to a setter: tenths, and whether it is a Python int.
Num(t, isInt) == [tenths |-> t, isInt |-> isInt]

\* '{}'.format(x), encoded: an int prints its digits, a float prints its
\* shortest repr ("0.0", "12.5", "30.0").
Format(x) ==
    LET a == IF x.tenths < 0 THEN -x.tenths ELSE x.tenths
        sign == IF x.tenths < 0 THEN <<45>> ELSE <<>>
    IN IF x.isInt THEN sign \o Digits(a \div 10)
       ELSE sign \o Digits(a \div 10) \o <<46>> \o Digits(a % 10)

\* a & b on bytes.
RECURSIVE BitAnd(_, _)
BitAnd(a, b) ==
    IF a = 0 \/ b = 0 THEN 0
    ELSE (IF a % 2 = 1 /\ b % 2 = 1 THEN 1 ELSE 0) + 2 * BitAnd(a \div 2, b \div 2)

----------------------------------------------------------------------------
(* Python values, as [tag, val] with val a sequence of integers. *)

None == [tag |-> "None", val |-> <<>>]
Unset == [tag |-> "unset", val |-> <<>>]
Pending == [tag |-> "pending", val |-> <<>>]
Bool(b) == [tag |-> "bool", val |-> IF b THEN <<1>> ELSE <<0>>]
ByteArray(s) == [tag |-> "bytearray", val |-> s]
Str(s) == [tag |-> "str", val |-> s]
\* A finite float: (-1)^neg * mant / 10^scale with mant not divisible by 10,
\* naming the double nearest to that decimal; then the infinities and nan.
Float(neg, mant, scale) == [tag |-> "float", val |-> <<neg, mant, scale>>]
Infinity(neg) == [tag |-> "float", val |-> <<neg>>]
NaN == [tag |-> "float", val |-> <<>>]
Raise(exc) == [tag |-> exc, val |-> <<>>]

Exceptions == {"AssertionError", "IndexError", "UnicodeDecodeError", "SerialException"}
IsRaise(v) == v.tag \in Exceptions

----------------------------------------------------------------------------
(* _decode_response (lines 77-84). *)

IsSpace(b) == b \in {9, 10, 11, 12, 13, 32}
IsDigit(b) == b \in 48..57

RECURSIVE LStrip(_)
LStrip(s) == IF s # <<>> /\ IsSpace(s[1]) THEN LStrip(Tail(s)) ELSE s

RECURSIVE RStrip(_)
RStrip(s) ==
    IF s # <<>> /\ IsSpace(s[Len(s)]) THEN RStrip(SubSeq(s, 1, Len(s) - 1)) ELSE s

\* The number a sequence of digit bytes writes.
RECURSIVE DigitsValue(_)
DigitsValue(s) ==
    IF s = <<>> THEN 0 ELSE 10 * DigitsValue(SubSeq(s, 1, Len(s) - 1)) + (s[Len(s)] - 48)

RECURSIVE Pow10(_)
Pow10(k) == IF k = 0 THEN 1 ELSE 10 * Pow10(k - 1)

\* How many decimal digits a positive number has.
RECURSIVE NumDigits(_)
NumDigits(n) == IF n < 10 THEN 1 ELSE 1 + NumDigits(n \div 10)

\* mant / 10^scale with every trailing zero of mant moved into the scale, so
\* that one value has one writing; zero is written (0, 0).
RECURSIVE Normal(_, _, _)
Normal(neg, mant, scale) ==
    IF mant = 0 THEN Float(neg, 0, 0)
    ELSE IF mant % 10 = 0 THEN Normal(neg, mant \div 10, scale - 1)
    ELSE Float(neg, mant, scale)

\* The double a decimal rounds to, as far as its kind goes: past the largest
\* double (1.7976931348623157e308) it is an infinity, below half the smallest
\* one (2.4703282292062327e-324) it is zero, otherwise it is finite.
Rounded(neg, mant, scale) ==
    LET n == Normal(neg, mant, scale)
        m == n.val[2]
        d == NumDigits(m)
        magnitude == d - 1 - n.val[3]
        lead == m * Pow10(9 - d)
    IN IF mant = 0 THEN n
       ELSE IF magnitude > 308 \/ (magnitude = 308 /\ lead > 179769313)
       THEN Infinity(neg)
       ELSE IF magnitude < -324 \/ (magnitude = -324 /\ lead <= 247032822)
       THEN Float(neg, 0, 0)
       ELSE n

\* An ASCII letter in lower case.
Lower(b) == IF b \in 65..90 THEN b + 32 ELSE b

\* float(response) for a bytearray.  An underscore must stand between two
\* digits and is dropped; surrounding whitespace is dropped; then an optional
\* sign followed by inf, infinity or nan in any letter case, or by a decimal
\* literal (digits with at most one point and at least one digit, then
\* optionally e or E, an optional sign and at least one digit) must be all
\* that is left.  Gives the float, or Raise("ValueError").  A literal here has
\* at most 9 digits in the mantissa and in the exponent.
ParseFloat(response) ==
    LET grouped == \A i \in 1..Len(response) : response[i] = 95 =>
                       /\ i > 1 /\ IsDigit(response[i - 1])
                       /\ i < Len(response) /\ IsDigit(response[i + 1])
        s == RStrip(LStrip(SelectSeq(response, LAMBDA b : b # 95)))
        signed == s # <<>> /\ s[1] \in {43, 45}
        neg == IF s # <<>> /\ s[1] = 45 THEN 1 ELSE 0
        body == IF signed THEN Tail(s) ELSE s
        word == [i \in 1..Len(body) |-> Lower(body[i])]
        marks == {i \in 1..Len(body) : body[i] \in {69, 101}}
        mark == IF marks = {} THEN Len(body) + 1
                ELSE CHOOSE i \in marks : \A j \in marks : i <= j
        literal == SubSeq(body, 1, mark - 1)
        tail == SubSeq(body, mark + 1, Len(body))
        expNeg == tail # <<>> /\ tail[1] = 45
        expDigits == IF tail # <<>> /\ tail[1] \in {43, 45} THEN Tail(tail) ELSE tail
        expOk == marks = {} \/ (/\ expDigits # <<>>
                                /\ \A i \in 1..Len(expDigits) : IsDigit(expDigits[i]))
        exponent == IF marks = {} THEN 0
                    ELSE IF expNeg THEN 0 - DigitsValue(expDigits)
                    ELSE DigitsValue(expDigits)
        points == {i \in 1..Len(literal) : literal[i] = 46}
        digits == {i \in 1..Len(literal) : IsDigit(literal[i])}
        wellFormed == /\ digits # {}
                      /\ Cardinality(points) <= 1
                      /\ points \cup digits = 1..Len(literal)
                      /\ expOk
        point == IF points = {} THEN Len(literal) + 1 ELSE CHOOSE i \in points : TRUE
        whole == SubSeq(literal, 1, point - 1)
        frac == SubSeq(literal, point + 1, Len(literal))
    IN IF ~grouped THEN Raise("ValueError")
       ELSE IF word \in {<<105, 110, 102>>, <<105, 110, 102, 105, 110, 105, 116, 121>>}
       THEN Infinity(neg)
       ELSE IF word = <<110, 97, 110>> THEN NaN
       ELSE IF wellFormed
       THEN Rounded(neg, DigitsValue(whole \o frac), Len(frac) - exponent)
       ELSE Raise("ValueError")

\* response.decode("utf-8"), strict: the code points, or <<-1>> when the
\* bytes are not valid UTF-8.
RECURSIVE Utf8(_)
Utf8(s) ==
    IF s = <<>> THEN <<>>
    ELSE LET b == s[1]
             n == Len(s)
             need == IF b < 128 THEN 1
                     ELSE IF b \in 194..223 THEN 2
                     ELSE IF b \in 224..239 THEN 3
                     ELSE IF b \in 240..244 THEN 4
                     ELSE 0
             ok == /\ need > 0
                   /\ need <= n
                   /\ \A i \in 2..need : s[i] \in 128..191
                   /\ (b = 224 => s[2] >= 160)
                   /\ (b = 237 => s[2] <= 159)
                   /\ (b = 240 => s[2] >= 144)
                   /\ (b = 244 => s[2] <= 143)
             cp == CASE need = 1 -> b
                     [] need = 2 -> (b - 192) * 64 + (s[2] - 128)
                     [] need = 3 -> (b - 224) * 4096 + (s[2] - 128) * 64 + (s[3] - 128)
                     [] OTHER -> (b - 240) * 262144 + (s[2] - 128) * 4096
                                 + (s[3] - 128) * 64 + (s[4] - 128)
             rest == Utf8(SubSeq(s, need + 1, n))
         IN IF ~ok THEN <<-1>>
            ELSE IF rest # <<>> /\ rest[1] = -1 THEN <<-1>>
            ELSE <<cp>> \o rest

\* A decoder that tries the text first and the number only when the bytes
\* are not text.
decode_response_text_first(response) ==
    LET value == ParseFloat(response)
        text == Utf8(response)
    IN IF ~(text # <<>> /\ text[1] = -1) THEN Str(text)
       ELSE IF value.tag # "ValueError" THEN value
       ELSE Raise("UnicodeDecodeError")

\* A decoder that refuses an empty response.
decode_response_nonempty(response) ==
    LET value == ParseFloat(response)
        text == Utf8(response)
    IN IF response = <<>> THEN Raise("IndexError")
       ELSE IF value.tag # "ValueError" THEN value
       ELSE IF text # <<>> /\ text[1] = -1 THEN Raise("UnicodeDecodeError")
       ELSE Str(text)

\* try float(response) except ValueError: response.decode("utf-8")
decode_response(response) ==
    LET value == ParseFloat(response)
        text == Utf8(response)
    IN IF value.tag # "ValueError" THEN value
       ELSE IF text # <<>> /\ text[1] = -1 THEN Raise("UnicodeDecodeError")
       ELSE Str(text)

----------------------------------------------------------------------------
(* _perform_bug_workarounds (lines 68-74). *)

ISET1_QUERY == Encode(<<"I", "S", "E", "T", "1", "?">>)

\* A faulty workaround: the command is not looked at.
perform_bug_workarounds_any_command(cmd, d) ==
    IF Len(d) = QuirkLen THEN SubSeq(d, 1, Len(d) - 1) ELSE d

perform_bug_workarounds(cmd, d) ==
    IF cmd = ISET1_QUERY /\ Len(d) = QuirkLen THEN SubSeq(d, 1, Len(d) - 1) ELSE d

----------------------------------------------------------------------------
(* The command bytes of the wrappers. *)

IDN_QUERY == Encode(<<"*", "I", "D", "N", "?">>)
VSET1_QUERY == Encode(<<"V", "S", "E", "T", "1", "?">>)
VOUT1_QUERY == Encode(<<"V", "O", "U", "T", "1", "?">>)
IOUT1_QUERY == Encode(<<"I", "O", "U", "T", "1", "?">>)
STATUS_QUERY == Encode(<<"S", "T", "A", "T", "U", "S", "?">>)
VSET1(x) == Encode(<<"V", "S", "E", "T", "1", ":">>) \o Format(x)
ISET1(x) == Encode(<<"I", "S", "E", "T", "1", ":">>) \o Format(x)
RCL(x) == Encode(<<"R", "C", "L">>) \o Format(x)
SAV(x) == Encode(<<"S", "A", "V">>) \o Format(x)
\* A faulty OUT: the two commands are swapped.
OUT_swapped(enable) == Encode(IF enable THEN <<"O", "U", "T", "0">> ELSE <<"O", "U", "T", "1">>)
OUT(enable) == Encode(IF enable THEN <<"O", "U", "T", "1">> ELSE <<"O", "U", "T", "0">>)
OVP(enable) == Encode(IF enable THEN <<"O", "V", "P", "1">> ELSE <<"O", "V", "P", "0">>)
OCP(enable) == Encode(IF enable THEN <<"O", "C", "P", "1">> ELSE <<"O", "C", "P", "0">>)

\* The arguments the callers of the model pass.
NoArg == Num(0, TRUE)
VoltageArgs == {Num(-1, FALSE), Num(0, FALSE), Num(300, FALSE), Num(301, FALSE)}
CurrentArgs == {Num(-1, FALSE), Num(0, FALSE), Num(50, FALSE), Num(51, FALSE)}
IndexArgs == {Num(0, TRUE), Num(10, TRUE), Num(50, TRUE), Num(60, TRUE), Num(25, FALSE)}
BoolArgs == {Num(0, TRUE), Num(10, TRUE)}
Truthy(x) == x.tenths # 0

Getters == {"get_requested_output_voltage", "get_output_voltage",
            "get_output_current", "get_requested_output_current"}
Setters == {"set_output_voltage", "set_output_current", "recall_from_memory",
            "save_to_memory", "enable_output", "enable_over_voltage_protection",
            "enable_over_current_protection"}
ProtectionQueries == {"is_over_voltage_protection_enabled",
                      "is_over_current_protection_enabled"}

----------------------------------------------------------------------------
(* The initial state: no object yet. *)

Init ==
    /\ life = "unborn"
    /\ opens = 0
    /\ closes = 0
    /\ scoped = FALSE
    /\ id = Unset
    /\ pc = "idle"
    /\ op = "none"
    /\ arg = NoArg
    /\ command = <<>>
    /\ decode = TRUE
    /\ data = <<>>
    /\ counter = 0
    /\ mask = 0
    /\ result = Pending
    /\ rxlog = <<>>
    /\ callWrites = 0
    /\ opWrites = 0
    /\ idnWrites = 0
    /\ idnRaw = <<>>
    /\ overrun = FALSE
    /\ faulted = FALSE
    /\ wire = "quiet"
    /\ before = "quiet"

----------------------------------------------------------------------------
(* The transaction engine: _execute_command (lines 47-65). *)

\* One more port write in the history of the operation.
Counted(n) == IF n < WriteCap THEN n + 1 ELSE n

\* A call of _execute_command(cmd, dec), up to its first port call.
Call(cmd, dec) ==
    /\ pc' = "write"
    /\ command' = cmd
    /\ decode' = dec
    /\ callWrites' = 0

\* A faulty propagation: a protection-flag query takes an exception for one
\* more failed attempt, tries again and in the end gives the default.
PropagateRetried(exc) ==
    IF op \in {"is_over_voltage_protection_enabled",
               "is_over_current_protection_enabled"}
    THEN /\ counter' = counter + 1
         /\ pc' = IF counter + 1 < MaxAttempts THEN "write" ELSE "returned"
         /\ result' = IF counter + 1 < MaxAttempts THEN result ELSE Bool(FALSE)
         /\ UNCHANGED <<id, life, command, decode>>
    ELSE /\ result' = exc
         /\ pc' = "returned"
         /\ life' = IF op = "__init__" THEN "ended" ELSE life
         /\ UNCHANGED <<id, counter, command, decode>>

\* An exception leaves the operation in progress; one that leaves __init__
\* leaves no object behind.
Propagate(exc) ==
    /\ result' = exc
    /\ pc' = "returned"
    /\ life' = IF op = "__init__" THEN "ended" ELSE life
    /\ UNCHANGED <<id, counter, command, decode>>

\* A faulty is_output_enabled: an empty response counts as "not enabled".
OutputEnabledValueDefault(d) ==
    IF Len(d) = 0 THEN Bool(FALSE)
    ELSE Bool(BitAnd(d[1], OUTPUT_ENABLED_MASK) # 0)

\* A faulty is_output_enabled: a response of more than one byte is not
\* trusted and reads as "off".
OutputEnabledValueSingleByte(d) ==
    IF Len(d) = 0 THEN Raise("IndexError")
    ELSE IF Len(d) > 1 THEN Bool(FALSE)
    ELSE Bool(BitAnd(d[1], OUTPUT_ENABLED_MASK) # 0)

\* bool(data[0] & OUTPUT_ENABLED_MASK) of is_output_enabled (line 211).
OutputEnabledValue(d) ==
    IF Len(d) = 0 THEN Raise("IndexError")
    ELSE Bool(BitAnd(d[1], OUTPUT_ENABLED_MASK) # 0)

\* A faulty loop condition: one attempt too many.
MayRetryOnceMore(c) == c <= MaxAttempts

\* while counter < 3 of _is_protection_enabled (line 228), after counter
\* became c.
MayRetry(c) == c < MaxAttempts

\* A faulty retry loop: the counter is never advanced.
NextCounterStuck(c) == c

\* counter = counter + 1 (line 233).
NextCounter(c) == c + 1

\* A faulty flag test: the mask is forgotten.
ProtectionValueNoMask(d, m) == Bool(d[1] # 0)

\* bool(data[0] & mask) of _is_protection_enabled (line 231).
ProtectionValue(d, m) == Bool(BitAnd(d[1], m) # 0)

\* A faulty setter: it hands on what _execute_command returned.
SetterValueReturned(v) == v

\* A setter calls self._execute_command(command) and has no return statement
\* (lines 96, 121, 146, 157, 168, 181, 194).
SetterValue(v) == None

\* What the wrapper does with the value v that _execute_command returned.
Return(v) ==
    IF IsRaise(v) THEN Propagate(v) /\ UNCHANGED callWrites
    ELSE IF op = "__init__" THEN
        /\ id' = v
        /\ life' = "alive"
        /\ result' = None
        /\ pc' = "returned"
        /\ UNCHANGED <<counter, command, decode, callWrites>>
    ELSE IF op \in Getters THEN
        /\ result' = v
        /\ pc' = "returned"
        /\ UNCHANGED <<id, life, counter, command, decode, callWrites>>
    ELSE IF op \in Setters THEN
        /\ result' = SetterValue(v)
        /\ pc' = "returned"
        /\ UNCHANGED <<id, life, counter, command, decode, callWrites>>
    ELSE IF op = "is_output_enabled" THEN
        /\ result' = OutputEnabledValue(v.val)
        /\ pc' = "returned"
        /\ UNCHANGED <<id, life, counter, command, decode, callWrites>>
    ELSE \* _is_protection_enabled, lines 230-234
        IF Len(v.val) = 1 THEN
            /\ result' = ProtectionValue(v.val, mask)
            /\ pc' = "returned"
            /\ UNCHANGED <<id, life, counter, command, decode, callWrites>>
        ELSE IF MayRetry(NextCounter(counter)) THEN
            /\ counter' = NextCounter(counter)
            /\ Call(STATUS_QUERY, FALSE)
            /\ UNCHANGED <<id, life, result>>
        ELSE
            /\ counter' = NextCounter(counter)
            /\ result' = Bool(FALSE)
            /\ pc' = "returned"
            /\ UNCHANGED <<id, life, command, decode, callWrites>>

\* A faulty engine: after the write of a setter nothing is read.
WriteNoDrain ==
    /\ pc = "write"
    /\ callWrites' = callWrites + 1
    /\ opWrites' = Counted(opWrites)
    /\ idnWrites' = IF command = IDN_QUERY THEN idnWrites + 1 ELSE idnWrites
    /\ data' = <<>>
    /\ rxlog' = <<>>
    /\ before' = wire
    /\ wire' = "written"
    /\ pc' = IF op \in Setters THEN "returned" ELSE "read"
    /\ result' = IF op \in Setters THEN None ELSE result
    /\ UNCHANGED <<life, opens, closes, scoped, id, op, arg, command, decode,
                   counter, mask, idnRaw, overrun, faulted>>

\* self._serial_port.write(command), line 48, and data = bytearray(), line 50.
Write ==
    /\ pc = "write"
    /\ callWrites' = callWrites + 1
    /\ opWrites' = Counted(opWrites)
    /\ idnWrites' = IF command = IDN_QUERY THEN idnWrites + 1 ELSE idnWrites
    /\ data' = <<>>
    /\ rxlog' = <<>>
    /\ pc' = "read"
    /\ before' = wire
    /\ wire' = "written"
    /\ UNCHANGED <<life, opens, closes, scoped, id, op, arg, command, decode,
                   counter, mask, result,
                   idnRaw, overrun, faulted>>

\* write() raises.
WriteFault ==
    /\ pc = "write"
    /\ opWrites' = Counted(opWrites)
    /\ idnWrites' = IF command = IDN_QUERY THEN idnWrites + 1 ELSE idnWrites
    /\ rxlog' = <<>>
    /\ callWrites' = callWrites + 1
    /\ faulted' = TRUE
    /\ before' = wire
    /\ wire' = "cut"
    /\ Propagate(Raise("SerialException"))
    /\ UNCHANGED <<opens, closes, scoped, op, arg, data, mask, idnRaw, overrun>>

\* A faulty ReadByte: the command is written again after every byte received.
ReadByteResend(b) ==
    /\ pc = "read"
    /\ Len(data) < MaxResp
    /\ data' = data \o <<b>>
    /\ rxlog' = Append(rxlog, <<b>>)
    /\ callWrites' = callWrites + 1
    /\ opWrites' = Counted(opWrites)
    /\ wire' = "draining"
    /\ UNCHANGED <<life, opens, closes, scoped, id, pc, op, arg, command, decode,
                   counter, mask, result, idnWrites, idnRaw, overrun, faulted, before>>

\* A faulty ReadByte: the byte is put in front of the buffer.
ReadBytePrepend(b) ==
    /\ pc = "read"
    /\ Len(data) < MaxResp
    /\ data' = <<b>> \o data
    /\ rxlog' = Append(rxlog, <<b>>)
    /\ wire' = "draining"
    /\ UNCHANGED <<life, opens, closes, scoped, id, pc, op, arg, command, decode,
                   counter, mask, result, callWrites, opWrites, idnWrites,
                   idnRaw, overrun, faulted, before>>

\* read() returns the byte b: lines 54-56.  (read() asks for one byte.)
ReadByte(b) ==
    /\ pc = "read"
    /\ Len(data) < MaxResp
    /\ data' = data \o <<b>>
    /\ rxlog' = Append(rxlog, <<b>>)
    /\ wire' = "draining"
    /\ UNCHANGED <<life, opens, closes, scoped, id, pc, op, arg, command, decode,
                   counter, mask, result, callWrites, opWrites, idnWrites,
                   idnRaw, overrun, faulted, before>>

\* read() returns the byte b after the call has read MaxResp bytes already:
\* lines 54-56 again.  From here on data and rxlog keep the last MaxResp
\* bytes only; the length of the real buffer stays above MaxResp.
ReadOverrun(b) ==
    /\ pc = "read"
    /\ Len(data) = MaxResp
    /\ data' = Tail(data) \o <<b>>
    /\ rxlog' = Tail(rxlog) \o << <<b>> >>
    /\ overrun' = TRUE
    /\ wire' = "draining"
    /\ UNCHANGED <<life, opens, closes, scoped, id, pc, op, arg, command, decode,
                   counter, mask, result, callWrites, opWrites, idnWrites,
                   idnRaw, faulted, before>>

\* read() returns nothing: lines 54, 57-65, and the wrapper's use of the value.
ReadEmpty ==
    /\ pc = "read"
    /\ rxlog' = Append(rxlog, <<>>)
    /\ LET patched == perform_bug_workarounds(command, data)
       IN /\ data' = patched
          /\ Return(IF decode THEN decode_response(patched) ELSE ByteArray(patched))
    /\ idnRaw' = IF op = "__init__" THEN data ELSE idnRaw
    /\ wire' = "quiet"
    /\ UNCHANGED <<opens, closes, scoped, op, arg, mask, opWrites, idnWrites,
                   overrun, faulted, before>>

\* read() raises.
ReadFault ==
    /\ pc = "read"
    /\ faulted' = TRUE
    /\ wire' = "cut"
    /\ Propagate(Raise("SerialException"))
    /\ UNCHANGED <<opens, closes, scoped, op, arg, data, mask, rxlog, callWrites,
                   opWrites, idnWrites, idnRaw, overrun, before>>

----------------------------------------------------------------------------
(* The object's life: __init__, __enter__, __exit__ (lines 29-44). *)

\* serial.Serial(port, ...) opens the port; then self._id = self._get_id().
Construct ==
    /\ life = "unborn"
    /\ life' = "constructing"
    /\ opens' = opens + 1
    /\ op' = "__init__"
    /\ Call(IDN_QUERY, TRUE)
    /\ UNCHANGED <<closes, scoped, id, arg, data, counter, mask, result, rxlog,
                   opWrites, idnWrites, idnRaw, overrun, faulted, wire, before>>

\* serial.Serial(port, ...) raises: no port, no object.
ConstructFault ==
    /\ life = "unborn"
    /\ life' = "ended"
    /\ op' = "__init__"
    /\ result' = Raise("SerialException")
    /\ pc' = "returned"
    /\ UNCHANGED <<opens, closes, scoped, id, arg, command, decode, data,
                   counter, mask, rxlog, callWrites, opWrites, idnWrites,
                   idnRaw, overrun, faulted, wire, before>>

Idle == life = "alive" /\ pc = "idle"

\* The caller goes on after an operation: the call's locals and its outcome
\* are gone, the object keeps self._id and the port.
Resume ==
    /\ life = "alive"
    /\ pc = "returned"
    /\ pc' = "idle"
    /\ op' = "none"
    /\ arg' = NoArg
    /\ command' = <<>>
    /\ decode' = TRUE
    /\ data' = <<>>
    /\ counter' = 0
    /\ mask' = 0
    /\ result' = Pending
    /\ rxlog' = <<>>
    /\ callWrites' = 0
    /\ opWrites' = 0
    /\ overrun' = FALSE
    /\ faulted' = FALSE
    /\ before' = "quiet"
    /\ UNCHANGED <<life, opens, closes, scoped, id, idnWrites, idnRaw, wire>>

\* with PowerSupply(...) as ps: __enter__ returns self.
Enter ==
    /\ Idle
    /\ ~scoped
    /\ scoped' = TRUE
    /\ UNCHANGED <<life, opens, closes, id, pc, op, arg, command, decode, data,
                   counter, mask, result, rxlog, callWrites, opWrites, idnWrites,
                   idnRaw, overrun, faulted, wire, before>>

\* The with-block ends: __exit__ closes the port.
Exit ==
    /\ Idle
    /\ scoped
    /\ closes' = closes + 1
    /\ life' = "ended"
    /\ UNCHANGED <<opens, scoped, id, pc, op, arg, command, decode, data,
                   counter, mask, result, rxlog, callWrites, opWrites, idnWrites,
                   idnRaw, overrun, faulted, wire, before>>

\* The caller lets go of an object it never entered, as main() of
\* examples/cli_example.py does when it returns.
Drop ==
    /\ Idle
    /\ ~scoped
    /\ life' = "ended"
    /\ UNCHANGED <<opens, closes, scoped, id, pc, op, arg, command, decode, data,
                   counter, mask, result, rxlog, callWrites, opWrites, idnWrites,
                   idnRaw, overrun, faulted, wire, before>>

----------------------------------------------------------------------------
(* The public operations (lines 87-234), called on an idle object. *)

\* The caller calls operation o with argument a.
Begin(o, a) ==
    /\ Idle
    /\ op' = o
    /\ arg' = a
    /\ UNCHANGED <<life, opens, closes, scoped, id, data, counter, rxlog,
                   opWrites, idnWrites,
                   idnRaw, overrun, faulted, wire, before>>

\* The operation goes on to _execute_command(cmd, dec).
Invoke(o, a, cmd, dec) ==
    /\ Begin(o, a)
    /\ Call(cmd, dec)
    /\ result' = Pending

\* An assert statement of the operation fails.
Reject(o, a) ==
    /\ Begin(o, a)
    /\ result' = Raise("AssertionError")
    /\ pc' = "returned"
    /\ UNCHANGED <<command, decode, callWrites>>

\* A faulty range: what the device accepts (31.0 V), not what it is rated for.
VoltageOkAccepted(x) == x.tenths >= VoltageMin /\ x.tenths <= VoltageMax + 10

\* assert voltage >= 0.0; assert voltage <= 30.0
VoltageOk(x) == x.tenths >= VoltageMin /\ x.tenths <= VoltageMax
\* assert current >= 0.0; assert current <= 5.0
CurrentOk(x) == x.tenths >= CurrentMin /\ x.tenths <= CurrentMax
\* assert index >= 1; assert index <= 5
IndexOk(x) == x.tenths >= IndexMin /\ x.tenths <= IndexMax

set_output_voltage(voltage) ==
    /\ mask' = 0
    /\ IF VoltageOk(voltage)
       THEN Invoke("set_output_voltage", voltage, VSET1(voltage), TRUE)
       ELSE Reject("set_output_voltage", voltage)

set_output_current(current) ==
    /\ mask' = 0
    /\ IF CurrentOk(current)
       THEN Invoke("set_output_current", current, ISET1(current), TRUE)
       ELSE Reject("set_output_current", current)

recall_from_memory(index) ==
    /\ mask' = 0
    /\ IF IndexOk(index)
       THEN Invoke("recall_from_memory", index, RCL(index), TRUE)
       ELSE Reject("recall_from_memory", index)

save_to_memory(index) ==
    /\ mask' = 0
    /\ IF IndexOk(index)
       THEN Invoke("save_to_memory", index, SAV(index), TRUE)
       ELSE Reject("save_to_memory", index)

get_requested_output_voltage ==
    /\ mask' = 0
    /\ Invoke("get_requested_output_voltage", NoArg, VSET1_QUERY, TRUE)

get_output_voltage ==
    /\ mask' = 0
    /\ Invoke("get_output_voltage", NoArg, VOUT1_QUERY, TRUE)

get_output_current ==
    /\ mask' = 0
    /\ Invoke("get_output_current", NoArg, IOUT1_QUERY, TRUE)

get_requested_output_current ==
    /\ mask' = 0
    /\ Invoke("get_requested_output_current", NoArg, ISET1_QUERY, TRUE)

enable_output(enable) ==
    /\ mask' = 0
    /\ Invoke("enable_output", enable, OUT(Truthy(enable)), TRUE)

enable_over_voltage_protection(enable) ==
    /\ mask' = 0
    /\ Invoke("enable_over_voltage_protection", enable, OVP(Truthy(enable)), TRUE)

enable_over_current_protection(enable) ==
    /\ mask' = 0
    /\ Invoke("enable_over_current_protection", enable, OCP(Truthy(enable)), TRUE)

\* A faulty get_identification: it asks the device again.
get_identification_requery ==
    /\ Begin("get_identification", NoArg)
    /\ mask' = 0
    /\ Call(IDN_QUERY, TRUE)
    /\ result' = Pending

\* return self._id
get_identification ==
    /\ Begin("get_identification", NoArg)
    /\ mask' = 0
    /\ result' = id
    /\ pc' = "returned"
    /\ UNCHANGED <<command, decode, callWrites>>

is_output_enabled ==
    /\ mask' = 0
    /\ Invoke("is_output_enabled", NoArg, STATUS_QUERY, FALSE)

\* _is_protection_enabled(m), up to its first _execute_command.
is_protection_enabled(o, m) ==
    /\ mask' = m
    /\ IF MayRetry(0)
       THEN Invoke(o, NoArg, STATUS_QUERY, FALSE)
       ELSE /\ Begin(o, NoArg)
            /\ result' = Bool(FALSE)
            /\ pc' = "returned"
            /\ UNCHANGED <<command, decode, callWrites>>

is_over_voltage_protection_enabled ==
    is_protection_enabled("is_over_voltage_protection_enabled",
                          OVER_VOLTAGE_PROTECTION_ENABLED_MASK)

is_over_current_protection_enabled ==
    is_protection_enabled("is_over_current_protection_enabled",
                          OVER_CURRENT_PROTECTION_ENABLED_MASK)

----------------------------------------------------------------------------

Next ==
    \/ Construct
    \/ ConstructFault
    \/ Write
    \/ WriteFault
    \/ \E b \in Byte : ReadByte(b)
    \/ ReadEmpty
    \/ ReadFault
    \/ Resume
    \/ Enter
    \/ Exit
    \/ Drop
    \/ \E v \in VoltageArgs : set_output_voltage(v)
    \/ \E c \in CurrentArgs : set_output_current(c)
    \/ \E i \in IndexArgs : recall_from_memory(i)
    \/ \E i \in IndexArgs : save_to_memory(i)
    \/ get_requested_output_voltage
    \/ get_output_voltage
    \/ get_output_current
    \/ get_requested_output_current
    \/ \E e \in BoolArgs : enable_output(e)
    \/ \E e \in BoolArgs : enable_over_voltage_protection(e)
    \/ \E e \in BoolArgs : enable_over_current_protection(e)
    \/ get_identification
    \/ is_output_enabled
    \/ is_over_voltage_protection_enabled
    \/ is_over_current_protection_enabled

Spec == Init /\ [][Next]_vars

----------------------------------------------------------------------------
(* The same driver on a port that may deliver bytes without end, for a     *)
(* caller that constructs the object and calls the two protection-flag     *)
(* queries.  The driver is a sequential program: when it is inside a call  *)
(* of _execute_command its next port call happens, and that is the only    *)
(* fairness.  Nothing makes the port go quiet.                             *)

PortStep ==
    \/ Write
    \/ WriteFault
    \/ \E b \in Byte : ReadByte(b)
    \/ \E b \in Byte : ReadOverrun(b)
    \/ ReadEmpty
    \/ ReadFault

LiveNext ==
    \/ Construct
    \/ PortStep
    \/ Resume
    \/ is_over_voltage_protection_enabled
    \/ is_over_current_protection_enabled

LiveSpec == Init /\ [][LiveNext]_vars /\ WF_vars(PortStep)

----------------------------------------------------------------------------
(* _decode_response on its own: the response is drawn at the start and    *)
(* the one step is the call.                                              *)

\* "0" "1" "." "-" " " "e" "_" "n" "a" "K", and the two bytes of U+00E9.
DecodeBytes == {48, 49, 46, 45, 32, 101, 95, 110, 97, 75, 195, 169}

\* b"12.50", b"12.50\n", b"KORAD KA3005P", b"KORAD\r\n", b"inf",
\* b"-Infinity", b"+1.5E-3", b"1e999", b"1_000", b"\xc0".
DecodeVectors ==
    { <<49, 50, 46, 53, 48>>,
      <<49, 50, 46, 53, 48, 10>>,
      <<75, 79, 82, 65, 68, 32, 75, 65, 51, 48, 48, 53, 80>>,
      <<75, 79, 82, 65, 68, 13, 10>>,
      <<105, 110, 102>>,
      <<45, 73, 110, 102, 105, 110, 105, 116, 121>>,
      <<43, 49, 46, 53, 69, 45, 51>>,
      <<49, 101, 57, 57, 57>>,
      <<49, 95, 48, 48, 48>>,
      <<192>> }

DecodeInputs ==
    DecodeVectors \cup UNION {[1..k -> DecodeBytes] : k \in 0..MaxText}

DecodeInit ==
    /\ life = "unborn"
    /\ opens = 0
    /\ closes = 0
    /\ scoped = FALSE
    /\ id = Unset
    /\ pc = "decode"
    /\ op = "_decode_response"
    /\ arg = NoArg
    /\ command = <<>>
    /\ decode = TRUE
    /\ data \in DecodeInputs
    /\ counter = 0
    /\ mask = 0
    /\ result = Pending
    /\ rxlog = <<>>
    /\ callWrites = 0
    /\ opWrites = 0
    /\ idnWrites = 0
    /\ idnRaw = <<>>
    /\ overrun = FALSE
    /\ faulted = FALSE
    /\ wire = "quiet"
    /\ before = "quiet"

DecodeResponse ==
    /\ pc = "decode"
    /\ result' = decode_response(data)
    /\ pc' = "returned"
    /\ UNCHANGED <<life, opens, closes, scoped, id, op, arg, command, decode, data,
                   counter, mask, rxlog, callWrites, opWrites, idnWrites, idnRaw,
                   overrun, faulted, wire, before>>

DecodeSpec == DecodeInit /\ [][DecodeResponse]_vars

----------------------------------------------------------------------------
(* Vocabulary of the properties. *)

\* The wrappers of the command table.
Wrappers == Getters \cup Setters

\* The text of an argument of the model's callers, as the table's {value}
\* and {n}: "0.0", "30.0", "5.0", "1", "5".
ValueBytes(a) ==
    CASE a = Num(0, FALSE) -> <<48, 46, 48>>
      [] a = Num(300, FALSE) -> <<51, 48, 46, 48>>
      [] a = Num(50, FALSE) -> <<53, 46, 48>>
      [] a = Num(10, TRUE) -> <<49>>
      [] a = Num(50, TRUE) -> <<53>>
      [] OTHER -> <<>>

\* The bytes of the command table: VSET1:{value}, VSET1?, VOUT1?,
\* ISET1:{value}, IOUT1?, ISET1?, RCL{n}, SAV{n}, OUT1/OUT0, OVP1/OVP0,
\* OCP1/OCP0.
TemplateBytes(o, a) ==
    LET flag == IF a = Num(0, TRUE) THEN <<48>> ELSE <<49>>
    IN CASE o = "set_output_voltage" -> <<86, 83, 69, 84, 49, 58>> \o ValueBytes(a)
         [] o = "get_requested_output_voltage" -> <<86, 83, 69, 84, 49, 63>>
         [] o = "get_output_voltage" -> <<86, 79, 85, 84, 49, 63>>
         [] o = "set_output_current" -> <<73, 83, 69, 84, 49, 58>> \o ValueBytes(a)
         [] o = "get_output_current" -> <<73, 79, 85, 84, 49, 63>>
         [] o = "get_requested_output_current" -> <<73, 83, 69, 84, 49, 63>>
         [] o = "recall_from_memory" -> <<82, 67, 76>> \o ValueBytes(a)
         [] o = "save_to_memory" -> <<83, 65, 86>> \o ValueBytes(a)
         [] o = "enable_output" -> <<79, 85, 84>> \o flag
         [] o = "enable_over_voltage_protection" -> <<79, 86, 80>> \o flag
         [] o = "enable_over_current_protection" -> <<79, 67, 80>> \o flag
         [] OTHER -> <<>>

\* The argument is one the table allows: a voltage in 0.0..30.0, a current
\* in 0.0..5.0, an integer slot in 1..5, any flag, nothing for a query.
ValidArgument(o, a) ==
    CASE o = "set_output_voltage" -> a.tenths >= 0 /\ a.tenths <= 300
      [] o = "set_output_current" -> a.tenths >= 0 /\ a.tenths <= 50
      [] o \in {"recall_from_memory", "save_to_memory"} ->
             a.isInt /\ a.tenths >= 10 /\ a.tenths <= 50
      [] OTHER -> TRUE

\* The bytes of "STATUS?".
StatusQueryBytes == <<83, 84, 65, 84, 85, 83, 63>>

\* Bit 6 (0x40) of a byte is set.
Bit6(b) == (b \div 64) % 2 = 1

\* _decode_response has returned or raised.
Decoded == op = "_decode_response" /\ pc = "returned"

\* A numeric literal, read one byte at a time: digits with at most one
\* point and at least one digit, an optional exponent, an underscore only
\* between two digits.
LiteralStep(state, b) ==
    LET digit == b \in 48..57
        e == b \in {69, 101}
    IN CASE state = "start" -> IF digit THEN "int" ELSE IF b = 46 THEN "dot" ELSE "bad"
         [] state = "int" -> IF digit THEN "int" ELSE IF b = 95 THEN "int_"
                             ELSE IF b = 46 THEN "point" ELSE IF e THEN "e" ELSE "bad"
         [] state = "dot" -> IF digit THEN "frac" ELSE "bad"
         [] state = "point" -> IF digit THEN "frac" ELSE IF e THEN "e" ELSE "bad"
         [] state = "frac" -> IF digit THEN "frac" ELSE IF b = 95 THEN "frac_"
                              ELSE IF e THEN "e" ELSE "bad"
         [] state = "e" -> IF digit THEN "exp" ELSE IF b \in {43, 45} THEN "esign" ELSE "bad"
         [] state = "exp" -> IF digit THEN "exp" ELSE IF b = 95 THEN "exp_" ELSE "bad"
         [] state = "int_" -> IF digit THEN "int" ELSE "bad"
         [] state = "frac_" -> IF digit THEN "frac" ELSE "bad"
         [] state \in {"esign", "exp_"} -> IF digit THEN "exp" ELSE "bad"
         [] OTHER -> "bad"

RECURSIVE LiteralRun(_, _)
LiteralRun(state, s) ==
    IF s = <<>> THEN state ELSE LiteralRun(LiteralStep(state, s[1]), Tail(s))

Unsigned(s) == IF s # <<>> /\ s[1] \in {43, 45} THEN Tail(s) ELSE s

\* The whole sequence is a numeric literal with an optional sign.
IsLiteral(s) == LiteralRun("start", Unsigned(s)) \in {"int", "point", "frac", "exp"}

\* The sequence between its first and its last byte that is not whitespace.
Trimmed(s) ==
    LET ink == {i \in 1..Len(s) : s[i] \notin {9, 10, 11, 12, 13, 32}}
    IN IF ink = {} THEN <<>>
       ELSE SubSeq(s, CHOOSE i \in ink : \A j \in ink : i <= j,
                      CHOOSE i \in ink : \A j \in ink : i >= j)

\* inf, infinity or nan in any letter case, with an optional sign.
IsSpecialFloat(s) ==
    LET u == Unsigned(s)
        names == {<<73, 78, 70>>, <<73, 78, 70, 73, 78, 73, 84, 89>>, <<78, 65, 78>>}
    IN \E w \in names :
           /\ Len(u) = Len(w)
           /\ \A i \in 1..Len(w) : u[i] \in {w[i], w[i] + 32}

\* What float() takes for a number.
IsFloatText(s) == IsLiteral(Trimmed(s)) \/ IsSpecialFloat(Trimmed(s))

IsAscii(s) == \A i \in 1..Len(s) : s[i] < 128

\* A byte that no UTF-8 text holds, a continuation byte with no sequence to
\* continue, or a lead byte with no continuation byte behind it.
BrokenUtf8(s) ==
    \E i \in 1..Len(s) :
        \/ s[i] \in {192, 193} \cup 245..255
        \/ s[i] \in 128..191 /\ (i = 1 \/ s[i - 1] < 128)
        \/ s[i] >= 192 /\ (i = Len(s) \/ s[i + 1] \notin 128..191)

\* The chunks of a read log, joined in arrival order.
RECURSIVE Flatten(_)
Flatten(log) == IF log = <<>> THEN <<>> ELSE log[1] \o Flatten(Tail(log))

\* The operation in progress, or the one that has just returned, called
\* _execute_command.
Called == command # <<>>

\* The last _execute_command of the operation saw its empty read.
Drained == rxlog # <<>> /\ rxlog[Len(rxlog)] = <<>>

\* The operation has returned (or raised) to its caller.
Returned == pc = "returned"

\* The bytes of "ISET1?".
Iset1QueryBytes == <<73, 83, 69, 84, 49, 63>>

\* What the quirk workaround is documented to give for command cmd and the
\* raw response raw.
QuirkExpected(cmd, raw) ==
    IF cmd = Iset1QueryBytes /\ Len(raw) = 6 THEN SubSeq(raw, 1, 5) ELSE raw

\* What the transaction of a wrapper that has drained its reply gives:
\* the reply, without the sixth byte of an ISET1? reply, decoded.
TransactionResult == decode_response(QuirkExpected(command, Flatten(rxlog)))

\* The documented mask of a protection-flag query.
ProtectionBit(o) == IF o = "is_over_voltage_protection_enabled" THEN 128 ELSE 32

\* The documented range of a range-checked setter, in tenths.
RangeOf(o) ==
    CASE o = "set_output_voltage" -> <<0, 300>>
      [] o = "set_output_current" -> <<0, 50>>
      [] OTHER -> <<10, 50>>

RangeChecked == {"set_output_voltage", "set_output_current",
                 "recall_from_memory", "save_to_memory"}

\* A protection-flag query is inside a call of _execute_command.
InProtectionQuery == op \in ProtectionQueries /\ pc \in {"write", "read"}

----------------------------------------------------------------------------
(* C1: one call of _execute_command performs exactly one write on the     *)
(* port, whatever the port returns: none before the call's write step,    *)
(* one during every read of the call, one when the call is over.          *)
C1_OneWritePerCall ==
    /\ pc = "write" => callWrites = 0
    /\ pc = "read" => callWrites = 1
    /\ (Returned /\ Called) => callWrites = 1

\* A query has returned a float after four bytes and the empty read.
C1_Witness ==
    /\ Returned
    /\ op = "get_output_voltage"
    /\ Len(rxlog) = 5
    /\ result.tag = "float"
    /\ callWrites = 1

(* C2: the read loop stops at the first empty read and reads nothing      *)
(* after it; N non-empty chunks followed by one empty chunk accumulate to *)
(* the concatenation of the N chunks in arrival order.                    *)
C2_DrainUntilEmpty ==
    /\ \A i \in 1..Len(rxlog) : rxlog[i] = <<>> => i = Len(rxlog)
    /\ pc = "read" => ~Drained /\ data = Flatten(rxlog)
    /\ (Returned /\ Drained) => data = QuirkExpected(command, Flatten(rxlog))

\* Three different-looking chunks and the empty one have been read.
C2_Witness ==
    /\ Returned
    /\ rxlog = << <<49>>, <<192>>, <<192>>, <<>> >>
    /\ data = <<49, 192, 192>>

(* C3: when the command is ISET1? and the raw response is 6 bytes long,   *)
(* the buffer that is decoded or returned is its first 5 bytes; for every *)
(* other command and every other length it is the raw response, with      *)
(* decode true and with decode false.                                     *)
C3_QuirkWorkaround ==
    (Returned /\ Drained) =>
        /\ data = QuirkExpected(command, Flatten(rxlog))
        /\ op \in Getters => result = decode_response(QuirkExpected(command, Flatten(rxlog)))
        /\ (op = "is_output_enabled" /\ Flatten(rxlog) # <<>>) =>
               result = Bool((Flatten(rxlog)[1] \div 64) % 2 = 1)

\* ISET1? was answered with six bytes and five of them were decoded.
C3_Witness ==
    /\ Returned
    /\ op = "get_requested_output_current"
    /\ Flatten(rxlog) = <<49, 49, 49, 49, 49, 49>>
    /\ data = <<49, 49, 49, 49, 49>>
    /\ result = Float(0, 11111, 0)

(* C4: a protection-flag query (mask 0x80 for over-voltage, 0x20 for      *)
(* over-current) returns true iff the first one-byte status response,     *)
(* among at most three attempts, has the mask bit set; when all three     *)
(* attempts give a response that is not one byte long it returns false,   *)
(* and no fault is raised for a malformed response.                       *)
C4_ProtectionFlag ==
    (Returned /\ op \in ProtectionQueries) =>
        /\ result.tag \in {"bool", "SerialException"}
        /\ Drained => result.tag = "bool"
        /\ result.tag = "bool" =>
            /\ Drained
            /\ opWrites \in 1..3
            /\ Len(data) = 1 =>
                   result = Bool((data[1] \div ProtectionBit(op)) % 2 = 1)
            /\ Len(data) # 1 => (result = Bool(FALSE) /\ opWrites = 3)

\* The over-voltage query gave true at its second attempt, the over-current
\* bit of that status byte being clear.
C4_Witness ==
    /\ Returned
    /\ op = "is_over_voltage_protection_enabled"
    /\ opWrites = 2
    /\ data = <<192>>
    /\ result = Bool(TRUE)

(* C5: a protection-flag query issues STATUS? at least once and at most   *)
(* three times; a further attempt follows only an attempt whose response  *)
(* was not one byte long, and none follows the first one-byte response.   *)
C5_BoundedRetry ==
    op \in ProtectionQueries =>
        /\ command = <<83, 84, 65, 84, 85, 83, 63>>
        /\ pc = "write" =>
            /\ counter \in 0..2
            /\ opWrites = counter
            /\ counter > 0 => (Drained /\ Len(data) # 1)
        /\ pc = "read" => (counter \in 0..2 /\ opWrites = counter + 1)
        /\ Returned =>
            /\ opWrites \in 1..3
            /\ (Drained /\ Len(data) = 1) => opWrites = counter + 1
            /\ (Drained /\ Len(data) # 1) => opWrites = 3

\* The third attempt is about to be written after two malformed responses.
C5_Witness ==
    /\ op = "is_over_current_protection_enabled"
    /\ pc = "write"
    /\ counter = 2
    /\ opWrites = 2
    /\ Len(data) = 2

(* C6: is_output_enabled with an empty raw status response raises         *)
(* IndexError after exactly one STATUS? transaction: no retry and no      *)
(* default value.                                                         *)
C6_OutputEnabledEmpty ==
    op = "is_output_enabled" =>
        /\ opWrites <= 1
        /\ counter = 0
        /\ (Returned /\ rxlog = << <<>> >>) =>
               (result = Raise("IndexError") /\ opWrites = 1)

\* The status query was answered with nothing and IndexError reached the caller.
C6_Witness ==
    /\ Returned
    /\ op = "is_output_enabled"
    /\ rxlog = << <<>> >>
    /\ result.tag = "IndexError"

(* C7: set_output_voltage ([0.0, 30.0]), set_output_current ([0.0, 5.0]), *)
(* recall_from_memory and save_to_memory ([1, 5]) fail before any port    *)
(* write or read when the argument is outside the range, and an argument  *)
(* on a range boundary is accepted and leads to exactly one transaction.  *)
C7_RangeValidation ==
    op \in RangeChecked =>
        LET lo == RangeOf(op)[1]
            hi == RangeOf(op)[2]
            outside == arg.tenths < lo \/ arg.tenths > hi
            boundary == arg.tenths \in {lo, hi}
        IN /\ outside =>
               /\ pc = "returned"
               /\ result = Raise("AssertionError")
               /\ opWrites = 0
               /\ callWrites = 0
               /\ rxlog = <<>>
           /\ (boundary /\ Returned) =>
               (result.tag # "AssertionError" /\ opWrites = 1)

\* 30.1 V was refused.
C7_Witness ==
    /\ Returned
    /\ op = "set_output_voltage"
    /\ arg = Num(301, FALSE)
    /\ result.tag = "AssertionError"
    /\ opWrites = 0

(* C8: after construction get_identification returns the value the one    *)
(* *IDN? transaction of the constructor produced, without any port write  *)
(* or read; *IDN? is never written again and self._id never changes.      *)
C8_CachedIdentity ==
    /\ idnWrites <= 1
    /\ life = "alive" => (idnWrites = 1 /\ id = decode_response(idnRaw))
    /\ (Returned /\ op = "get_identification") =>
        /\ result = decode_response(idnRaw)
        /\ opWrites = 0
        /\ callWrites = 0
        /\ rxlog = <<>>

\* The identity "11" of the constructor comes back inside a with-block.
C8_Witness ==
    /\ Returned
    /\ op = "get_identification"
    /\ scoped
    /\ idnRaw = <<49, 49>>
    /\ result = Float(0, 11, 0)

(* C9: the port is opened before any command is issued and is closed      *)
(* exactly once when the object's life ends, on every exit path,          *)
(* including the one where the *IDN? transaction of the constructor       *)
(* raises after the port was opened.                                      *)
C9_ClosedOnEveryExit ==
    /\ (opWrites > 0 \/ pc \in {"write", "read"}) => opens = 1
    /\ closes <= 1
    /\ (life = "ended" /\ opens > 0) => closes = 1

(* C10: a protection-flag query never blocks: for every behaviour of the  *)
(* port the call eventually returns a boolean or raises a fault.          *)
C10_AlwaysReturns == InProtectionQuery ~> Returned

(* C10, amended: if the read loop of every transaction ends (the port     *)
(* sooner or later answers a read with nothing, or raises), a             *)
(* protection-flag query eventually returns a boolean or raises a fault.  *)
C10_ReturnsWhenPortGoesQuiet ==
    ([]<>(pc # "read")) => (InProtectionQuery ~> Returned)

\* A query gave the default after three attempts, the last of which read
\* more than MaxResp bytes of noise.
C10_Witness ==
    /\ Returned
    /\ op = "is_over_voltage_protection_enabled"
    /\ overrun
    /\ opWrites = 3
    /\ result = Bool(FALSE)

(* C11: _decode_response returns a number when the whole byte sequence is *)
(* the text of a numeric literal, returns the bytes decoded as a UTF-8    *)
(* string unchanged when it is not, and raises a decode fault when the    *)
(* bytes are not valid UTF-8.                                             *)
C11_NumberIffLiteral ==
    Decoded =>
        /\ IsLiteral(data) => result.tag = "float"
        /\ (~IsLiteral(data) /\ IsAscii(data)) => result = Str(data)
        /\ BrokenUtf8(data) => result = Raise("UnicodeDecodeError")

(* C11, amended: _decode_response returns a number when the bytes, with   *)
(* leading and trailing ASCII whitespace dropped, are a numeric literal   *)
(* or a signed or unsigned inf, infinity or nan in any letter case;       *)
(* otherwise it returns the bytes decoded as a UTF-8 string unchanged, or *)
(* raises a decode fault when they are not valid UTF-8.                   *)
C11_NumberIffFloatText ==
    Decoded =>
        /\ IsFloatText(data) => result.tag = "float"
        /\ (~IsFloatText(data) /\ IsAscii(data)) => result = Str(data)
        /\ BrokenUtf8(data) => result = Raise("UnicodeDecodeError")
        /\ data = <<49, 50, 46, 53, 48>> => result = Float(0, 125, 1)
        /\ data = <<195, 169>> => result = Str(<<233>>)

\* b"12.50\n" decoded to 12.5.
C11_Witness ==
    /\ Decoded
    /\ data = <<49, 50, 46, 53, 48, 10>>
    /\ result = Float(0, 125, 1)

(* C12: each command wrapper called with valid arguments performs exactly *)
(* one transaction, and the bytes it writes are its command template of   *)
(* the table.                                                             *)
C12_OneTemplateTransaction ==
    (op \in Wrappers /\ ValidArgument(op, arg)) =>
        /\ Called
        /\ command = TemplateBytes(op, arg)
        /\ opWrites <= 1
        /\ pc = "write" => opWrites = 0
        /\ pc \in {"read", "returned"} => opWrites = 1
        /\ (Returned /\ result.tag # "SerialException") => Drained

\* enable_output(False) wrote OUT0 once and returned.
C12_Witness ==
    /\ Returned
    /\ op = "enable_output"
    /\ arg = Num(0, TRUE)
    /\ command = <<79, 85, 84, 48>>
    /\ opWrites = 1
    /\ Drained

(* C13: recall_from_memory and save_to_memory accept only an integer slot *)
(* index in 1..5: for any other argument (outside the range, or a         *)
(* non-integer value between 1 and 5) no RCL/SAV command is written to    *)
(* the transport.                                                         *)
C13_OnlyIntegerSlots ==
    (op \in {"recall_from_memory", "save_to_memory"} /\ ~ValidArgument(op, arg)) =>
        /\ ~Called
        /\ opWrites = 0
        /\ Returned => result.tag = "AssertionError"

(* C14: is_output_enabled performs exactly one STATUS? transaction and,   *)
(* for every non-empty raw response of any length, returns true iff bit 6 *)
(* of the first byte is set, without retry and without fault; the same    *)
(* multi-byte response makes a protection-flag query retry.               *)
C14_FirstByteTrusted ==
    LET raw == Flatten(rxlog)
    IN /\ op = "is_output_enabled" =>
           /\ command = StatusQueryBytes
           /\ opWrites <= 1
           /\ (Returned /\ Drained /\ raw # <<>>) =>
                  /\ result = Bool(Bit6(raw[1]))
                  /\ opWrites = 1
       /\ (op \in ProtectionQueries /\ Returned /\ Drained /\ Len(raw) > 1) =>
              /\ opWrites = 3
              /\ result = Bool(FALSE)

\* The two bytes C0 31 read as "output on" after one transaction.
C14_Witness ==
    /\ Returned
    /\ op = "is_output_enabled"
    /\ Flatten(rxlog) = <<192, 49>>
    /\ result = Bool(TRUE)
    /\ opWrites = 1

(* C15: a transport fault raised by a write or a read propagates to the   *)
(* caller of the operation in progress and ends it: no further write or   *)
(* read is performed for that call, and inside a protection-flag query a  *)
(* fault at any of the three attempts is neither retried nor converted    *)
(* into the default false.                                                *)
C15_FaultPropagates ==
    faulted =>
        /\ Returned
        /\ result = Raise("SerialException")
        /\ op = "__init__" => life = "ended"

\* A protection-flag query whose second attempt raised: no third attempt.
C15_Witness ==
    /\ faulted
    /\ op = "is_over_current_protection_enabled"
    /\ counter = 1
    /\ opWrites = 2
    /\ result = Raise("SerialException")

(* C16: every command wrapper returns to its caller the result of the     *)
(* transaction it invoked, the query wrappers and the setter wrappers     *)
(* alike.                                                                 *)
C16_WrappersReturnResult ==
    (Returned /\ Drained /\ op \in Wrappers) => result = TransactionResult

(* C16, amended: a query wrapper returns to its caller the result of the  *)
(* transaction it invoked; a setter wrapper performs its transaction,     *)
(* discards the result and returns None; a fault of the transaction       *)
(* leaves both.                                                           *)
C16_QueriesReturnResult ==
    (Returned /\ Drained) =>
        /\ op \in Getters => result = TransactionResult
        /\ op \in Setters =>
               result = IF IsRaise(TransactionResult) THEN TransactionResult ELSE None

\* The device answered "11" to VSET1:30.0 and the setter returned None.
C16_Witness ==
    /\ Returned
    /\ op = "set_output_voltage"
    /\ arg = Num(300, FALSE)
    /\ Flatten(rxlog) = <<49, 49>>
    /\ result = None

(* C17: for any sequence of public operations on one connection, the      *)
(* trace of transport operations is a sequence of transactions, each one  *)
(* write followed by one or more reads of which exactly the last is       *)
(* empty; no write happens while a previous transaction is still          *)
(* draining, and every transaction, setters included, performs at least   *)
(* one read.                                                              *)
C17_WriteThenDrain ==
    /\ before = "quiet"
    /\ pc = "read" => wire \in {"written", "draining"}
    /\ pc # "read" => wire = "quiet"
    /\ \A i \in 1..Len(rxlog) : rxlog[i] = <<>> => i = Len(rxlog)
    /\ (Returned /\ Called) => (Drained /\ callWrites = 1)

(* C17, amended: the trace of transport operations is a sequence of       *)
(* transactions, each one write followed by reads; a transaction ends     *)
(* with its first empty read, or with the write or the read that raises.  *)
(* No write happens while a previous transaction is still draining, and   *)
(* every transaction whose write did not raise, setters included,         *)
(* performs at least one read.                                            *)
C17_WriteThenDrainOrRaise ==
    /\ before \in {"quiet", "cut"}
    /\ pc = "read" => wire \in {"written", "draining"}
    /\ pc # "read" => wire \in {"quiet", "cut"}
    /\ \A i \in 1..Len(rxlog) : rxlog[i] = <<>> => i = Len(rxlog)
    /\ (Returned /\ Called /\ ~faulted) => (Drained /\ wire = "quiet" /\ callWrites = 1)

\* A setter wrote after a transaction that a fault had cut, read nothing
\* but the empty read, and returned.
C17_Witness ==
    /\ Returned
    /\ op = "enable_output"
    /\ before = "cut"
    /\ rxlog = << <<>> >>
    /\ wire = "quiet"

(* C18: when the device sends no bytes in reply to *IDN? during           *)
(* construction, the constructor raises no fault: it completes after one  *)
(* write and one empty read, the cached identity is the empty string, and *)
(* every later get_identification returns that empty string.              *)
C18_EmptyIdentity ==
    /\ (op = "__init__" /\ Returned /\ rxlog = << <<>> >>) =>
           /\ result = None
           /\ life = "alive"
           /\ id = Str(<<>>)
           /\ callWrites = 1
           /\ opWrites = 1
    /\ (life = "alive" /\ idnRaw = <<>>) => (id = Str(<<>>) /\ idnWrites = 1)
    /\ (op = "get_identification" /\ Returned /\ idnRaw = <<>>) =>
           /\ result = Str(<<>>)
           /\ opWrites = 0

\* A later get_identification gave the empty string.
C18_Witness ==
    /\ Returned
    /\ op = "get_identification"
    /\ idnRaw = <<>>
    /\ id = Str(<<>>)
    /\ result = Str(<<>>)

====
